---- MODULE Spec2Model ----
(***************************************************************************)
(* Model of OpenPNM/Geometry/models/pore_diameter.py: the three pore       *)
(* diameter models sphere, sphere_from_radius and voronoi.                 *)
(*                                                                         *)
(* Numbers.  The code computes in IEEE doubles.  The model computes in     *)
(* exact arithmetic on the values (n/d) * pi^p, together with the three    *)
(* non-finite doubles nan, +inf and -inf.  Input sets are chosen so that   *)
(* every intermediate value is of this form (seeds are rationals, volumes  *)
(* are rational multiples of pi whose equivalent diameter is rational), so *)
(* no rounding is modelled.                                                *)
(***************************************************************************)
EXTENDS Integers, Sequences, FiniteSets, TLC

VARIABLES geometry, last, ref

vars == <<geometry, last, ref>>

(***************************************************************************)
(* Bounds of the model.                                                    *)
(***************************************************************************)
\* largest pore count of a container holding one array
MaxPores == 2
\* largest pore count of a container holding two arrays
MaxPoresTwoKeys == 1

(***************************************************************************)
(* IEEE-like numbers: [k, n, d, p] is (n/d) * pi^p when k = "fin".         *)
(***************************************************************************)
Abs(i) == IF i < 0 THEN -i ELSE i

RECURSIVE Gcd(_, _)
Gcd(a, b) == IF b = 0 THEN a ELSE Gcd(b, a % b)

NaN == [k |-> "nan", n |-> 0, d |-> 1, p |-> 0]
PInf == [k |-> "inf", n |-> 0, d |-> 1, p |-> 0]
NInf == [k |-> "ninf", n |-> 0, d |-> 1, p |-> 0]

\* the finite value (n/d) * pi^p in lowest terms, d > 0; x/0 follows numpy
Norm(n, d, p) ==
    IF d = 0
    THEN (IF n = 0 THEN NaN ELSE IF n > 0 THEN PInf ELSE NInf)
    ELSE LET g == Gcd(Abs(n), Abs(d))
             s == IF d < 0 THEN -1 ELSE 1
         IN  [k |-> "fin", n |-> s * (n \div g), d |-> Abs(d) \div g,
              p |-> IF n = 0 THEN 0 ELSE p]

Rat(n, d) == Norm(n, d, 0)
Int2Num(i) == Norm(i, 1, 0)

IsFin(x) == x.k = "fin"
IsNaN(x) == x.k = "nan"
\* -1, 0 or 1 (pi > 0, so the sign of a finite value is that of n)
Sign(x) == IF x.k = "inf" THEN 1
           ELSE IF x.k = "ninf" THEN -1
           ELSE IF x.n > 0 THEN 1 ELSE IF x.n < 0 THEN -1 ELSE 0

Neg(x) == IF IsNaN(x) THEN NaN
          ELSE IF x.k = "inf" THEN NInf
          ELSE IF x.k = "ninf" THEN PInf
          ELSE Norm(-x.n, x.d, x.p)

\* x + y; finite operands carry the same power of pi (or one is 0)
NumAdd(x, y) ==
    IF IsNaN(x) \/ IsNaN(y) THEN NaN
    ELSE IF ~IsFin(x) /\ ~IsFin(y) THEN (IF x.k = y.k THEN x ELSE NaN)
    ELSE IF ~IsFin(x) THEN x
    ELSE IF ~IsFin(y) THEN y
    ELSE Norm(x.n * y.d + y.n * x.d, x.d * y.d, IF x.n = 0 THEN y.p ELSE x.p)

NumSub(x, y) == NumAdd(x, Neg(y))

NumMul(x, y) ==
    IF IsNaN(x) \/ IsNaN(y) THEN NaN
    ELSE IF ~IsFin(x) \/ ~IsFin(y)
         THEN (IF Sign(x) * Sign(y) = 0 THEN NaN
               ELSE IF Sign(x) * Sign(y) > 0 THEN PInf ELSE NInf)
    ELSE Norm(x.n * y.n, x.d * y.d, x.p + y.p)

NumDiv(x, y) ==
    IF IsNaN(x) \/ IsNaN(y) THEN NaN
    ELSE IF ~IsFin(y)
         THEN (IF IsFin(x) THEN Int2Num(0) ELSE NaN)
    ELSE IF ~IsFin(x)
         THEN (IF Sign(x) * (IF y.n < 0 THEN -1 ELSE 1) > 0 THEN PInf ELSE NInf)
    ELSE Norm(x.n * y.d, x.d * y.n, x.p - y.p)

\* x ** e for an integer e
RECURSIVE NumPow(_, _)
NumPow(x, e) ==
    IF e = 0 THEN Int2Num(1)
    ELSE IF e < 0 THEN NumDiv(Int2Num(1), NumPow(x, -e))
    ELSE NumMul(x, NumPow(x, e - 1))

\* IEEE comparisons: anything compared with nan is false
NumLt(x, y) ==
    IF IsNaN(x) \/ IsNaN(y) THEN FALSE
    ELSE IF x.k = "inf" \/ y.k = "ninf" THEN FALSE
    ELSE IF x.k = "ninf" \/ y.k = "inf" THEN TRUE
    ELSE x.n * y.d < y.n * x.d

NumEq(x, y) == ~IsNaN(x) /\ ~IsNaN(y) /\ x = y
NumLe(x, y) == NumLt(x, y) \/ NumEq(x, y)

\* _sp.pi
PI == Norm(1, 1, 1)

IsCube(i) == \E r \in 0..Abs(i) : r * r * r = Abs(i)
ICbrt(i) == LET r == CHOOSE r \in 0..Abs(i) : r * r * r = Abs(i)
            IN  IF i < 0 THEN -r ELSE r

\* scipy.special.cbrt: the real cube root, negative for a negative argument
cbrt(x) ==
    IF ~IsFin(x) THEN x
    ELSE Norm(ICbrt(x.n), ICbrt(x.d), 0)

(***************************************************************************)
(* The container (geometry / network object): Np pores and a dictionary    *)
(* props of per-pore arrays, every array of length Np.  Pores are numbered *)
(* 1..Np here (0..Np-1 in the code).                                       *)
(***************************************************************************)
SeedKeys == {"pore.seed", "pore.rank"}
VolumeKeys == {"pore.volume"}

\* array values under a seed key: below 0, 0, two interior quantiles, 1
SeedVals == {Rat(-1, 4), Rat(0, 1), Rat(1, 2), Rat(3, 4), Rat(1, 1)}

\* the volume of the sphere of diameter dia: (pi/6) * dia^3
SphereVolume(dia) == Norm(dia * dia * dia, 6, 1)

\* array values under a volume key; the first is negative
VolumeVals == {SphereVolume(dia) : dia \in -1..2}

Arrays(S, n) == [1..n -> S]

Container(n, f) == [Np |-> n, props |-> f]

OneKeyContainers ==
    UNION {   {Container(n, "pore.seed" :> a) : a \in Arrays(SeedVals, n)}
         \cup {Container(n, "pore.volume" :> a) : a \in Arrays(VolumeVals, n)}
         : n \in 0..MaxPores}

\* second arrays of the containers holding two keys
RankVals == {Rat(0, 1), Rat(3, 4)}
SmallVolumeVals == {SphereVolume(dia) : dia \in 0..1}

TwoKeyContainers ==
    UNION {   {Container(n, ("pore.seed" :> a) @@ ("pore.rank" :> b)) :
                  a \in Arrays(SeedVals, n), b \in Arrays(RankVals, n)}
         \cup {Container(n, ("pore.seed" :> a) @@ ("pore.volume" :> b)) :
                  a \in Arrays(SeedVals, n), b \in Arrays(SmallVolumeVals, n)}
         : n \in 0..MaxPoresTwoKeys}

Containers == OneKeyContainers \cup TwoKeyContainers

\* geometry[key] raises KeyError when the key is absent
HasKey(g, key) == key \in DOMAIN g.props

\* network.pores(): the indices of all pores of the container
pores(network) == [i \in 1..network.Np |-> i]

\* numpy fancy indexing arr[idx]
Take(arr, idx) == [j \in 1..Len(idx) |-> arr[idx[j]]]

(***************************************************************************)
(* scipy.stats as the code uses it: getattr(spst, psd_name) resolves the   *)
(* family, prob_fn(shape, loc=, scale=) freezes it, P.ppf(q) evaluates     *)
(* rv_continuous.ppf elementwise.  Two one-shape families are modelled,    *)
(* with integer shapes for which the quantile is rational:                 *)
(*   genpareto(c): support [0, inf) for c >= 0, [0, -1/c] for c < 0,       *)
(*                 _ppf(q) = ((1-q)^(-c) - 1) / c      (c # 0)             *)
(*   pareto(b):    b > 0, support [1, inf), _ppf(q) = (1-q)^(-1/b)         *)
(***************************************************************************)
KnownNames == {"genpareto", "pareto"}

\* getattr(spst, psd_name) succeeds
HasAttr(psd_name) == psd_name \in KnownNames

\* prob_fn with the frozen distribution of the previous quantile call reused
prob_fn_cached(psd_name, psd_shape, psd_loc, psd_scale) ==
    IF last.fn \in {"sphere", "sphere_from_radius"} /\ last.psd[1] \in KnownNames
    THEN [dist |-> last.psd[1], c |-> last.psd[2],
          loc |-> Int2Num(last.psd[3]), scale |-> Int2Num(last.psd[4])]
    ELSE [dist |-> psd_name, c |-> psd_shape,
          loc |-> Int2Num(psd_loc), scale |-> Int2Num(psd_scale)]

\* prob_fn(psd_shape, loc=psd_loc, scale=psd_scale): the frozen distribution
prob_fn(psd_name, psd_shape, psd_loc, psd_scale) ==
    [dist |-> psd_name, c |-> psd_shape,
     loc |-> Int2Num(psd_loc), scale |-> Int2Num(psd_scale)]

\* rv_continuous._argcheck of the family
argcheck(P) == IF P.dist = "pareto" THEN P.c > 0 ELSE TRUE

\* the ends a, b of the standardised support
support_a(P) == IF P.dist = "pareto" THEN Int2Num(1) ELSE Int2Num(0)
support_b(P) == IF P.dist = "genpareto" /\ P.c < 0 THEN Rat(-1, P.c) ELSE PInf

\* std_ppf with the upper tail taken: the inverse survival function
std_isf(P, q) ==
    IF P.dist = "pareto"
    THEN NumPow(q, -(1 \div P.c))
    ELSE NumDiv(NumSub(NumPow(q, -P.c), Int2Num(1)), Int2Num(P.c))

\* rv_continuous._ppf of the family, for 0 < q < 1 and valid shape
std_ppf(P, q) ==
    LET u == NumSub(Int2Num(1), q)
    IN  IF P.dist = "pareto"
        THEN NumPow(u, -(1 \div P.c))
        ELSE NumDiv(NumSub(NumPow(u, -P.c), Int2Num(1)), Int2Num(P.c))

\* rv_continuous.ppf at one quantile q
ppf1(P, q) ==
    LET cond0 == argcheck(P) /\ NumLt(Int2Num(0), P.scale) /\ NumEq(P.loc, P.loc)
        cond1 == NumLt(Int2Num(0), q) /\ NumLt(q, Int2Num(1))
    IN  IF cond0 /\ cond1 THEN NumAdd(NumMul(std_ppf(P, q), P.scale), P.loc)
        ELSE IF cond0 /\ NumEq(q, Int2Num(0))
             THEN NumAdd(NumMul(support_a(P), P.scale), P.loc)
        ELSE IF cond0 /\ NumEq(q, Int2Num(1))
             THEN NumAdd(NumMul(support_b(P), P.scale), P.loc)
        ELSE NaN

\* P.ppf(array)
ppf(P, q) == [i \in 1..Len(q) |-> ppf1(P, q[i])]

(***************************************************************************)
(* The outcome of a call: a returned array, or a raised exception.         *)
(***************************************************************************)
Return(value) == [ok |-> TRUE, err |-> "", value |-> value]
Raise(exc) == [ok |-> FALSE, err |-> exc, value |-> <<>>]

\* sphere_result with the seed array read before the family is resolved
sphere_result_key_first(g, psd_name, psd_shape, psd_loc, psd_scale, pore_seed, kwargs) ==
    IF ~HasKey(g, pore_seed) THEN Raise("KeyError")
    ELSE IF ~HasAttr(psd_name) THEN Raise("AttributeError")
    ELSE Return(ppf(prob_fn(psd_name, psd_shape, psd_loc, psd_scale), g.props[pore_seed]))

\* sphere_result with pore_seed ignored: always the default key
sphere_result_default_key(g, psd_name, psd_shape, psd_loc, psd_scale, pore_seed, kwargs) ==
    IF ~HasAttr(psd_name) THEN Raise("AttributeError")
    ELSE IF ~HasKey(g, "pore.seed") THEN Raise("KeyError")
    ELSE Return(ppf(prob_fn(psd_name, psd_shape, psd_loc, psd_scale), g.props["pore.seed"]))

\* sphere, lines 16-20
sphere_result(g, psd_name, psd_shape, psd_loc, psd_scale, pore_seed, kwargs) ==
    IF ~HasAttr(psd_name) THEN Raise("AttributeError")
    ELSE LET P == prob_fn(psd_name, psd_shape, psd_loc, psd_scale)
         IN  IF ~HasKey(g, pore_seed) THEN Raise("KeyError")
             ELSE Return(ppf(P, g.props[pore_seed]))

\* sphere_from_radius_result without the doubling
sphere_from_radius_undoubled(g, psd_name, psd_shape, psd_loc, psd_scale, pore_seed, kwargs) ==
    IF ~HasAttr(psd_name) THEN Raise("AttributeError")
    ELSE IF ~HasKey(g, pore_seed) THEN Raise("KeyError")
    ELSE Return(ppf(prob_fn(psd_name, psd_shape, psd_loc, psd_scale), g.props[pore_seed]))

\* sphere_from_radius, lines 29-33
sphere_from_radius_result(g, psd_name, psd_shape, psd_loc, psd_scale, pore_seed, kwargs) ==
    IF ~HasAttr(psd_name) THEN Raise("AttributeError")
    ELSE LET P == prob_fn(psd_name, psd_shape, psd_loc, psd_scale)
         IN  IF ~HasKey(g, pore_seed) THEN Raise("KeyError")
             ELSE LET v == ppf(P, g.props[pore_seed])
                  IN  Return([i \in 1..Len(v) |-> NumMul(v[i], Int2Num(2))])

\* voronoi_result returning the radius of the equivalent sphere
voronoi_radius(network, pore_volume, kwargs) ==
    IF ~HasKey(network, pore_volume) THEN Raise("KeyError")
    ELSE LET pore_vols == Take(network.props[pore_volume], pores(network))
         IN  Return([i \in 1..Len(pore_vols) |->
                        NumDiv(cbrt(NumDiv(NumMul(Int2Num(6), pore_vols[i]), PI)),
                               Int2Num(2))])

\* voronoi_result honouring a pore subset named in the keyword arguments
voronoi_named_subset(network, pore_volume, kwargs) ==
    LET idx == IF \E kw \in kwargs : kw.name = "pores"
               THEN (CHOOSE kw \in kwargs : kw.name = "pores").val
               ELSE pores(network)
    IN  IF ~HasKey(network, pore_volume) THEN Raise("KeyError")
        ELSE IF \E j \in 1..Len(idx) : idx[j] \notin 1..network.Np
             THEN Raise("IndexError")
        ELSE LET pore_vols == Take(network.props[pore_volume], idx)
             IN  Return([i \in 1..Len(pore_vols) |->
                            cbrt(NumDiv(NumMul(Int2Num(6), pore_vols[i]), PI))])

\* voronoi, lines 41-45
voronoi_result(network, pore_volume, kwargs) ==
    LET idx == pores(network)
    IN  IF ~HasKey(network, pore_volume) THEN Raise("KeyError")
        ELSE LET pore_vols == Take(network.props[pore_volume], idx)
             IN  Return([i \in 1..Len(pore_vols) |->
                            cbrt(NumDiv(NumMul(Int2Num(6), pore_vols[i]), PI))])

(***************************************************************************)
(* State: the caller's container, the latest call (last) and an earlier    *)
(* call kept for comparison (ref).                                         *)
(***************************************************************************)
NoPsd == <<"", 0, 0, 0>>

Call(fn, psd, key, kwargs, res) ==
    [fn |-> fn, psd |-> psd, key |-> key, kwargs |-> kwargs,
     ok |-> res.ok, err |-> res.err, value |-> res.value]

NoCall == Call("none", NoPsd, "", {}, Raise(""))

Init ==
    /\ geometry \in Containers
    /\ last = NoCall
    /\ ref = NoCall

\* sphere storing its result in the container under pore.diameter
sphere_storing(psd_name, psd_shape, psd_loc, psd_scale, pore_seed, kwargs) ==
    LET res == sphere_result(geometry, psd_name, psd_shape, psd_loc, psd_scale,
                             pore_seed, kwargs)
    IN  /\ last' = Call("sphere", <<psd_name, psd_shape, psd_loc, psd_scale>>, pore_seed,
                        kwargs, res)
        /\ geometry' = IF res.ok
                       THEN [geometry EXCEPT !.props = ("pore.diameter" :> res.value) @@ @]
                       ELSE geometry

sphere(psd_name, psd_shape, psd_loc, psd_scale, pore_seed, kwargs) ==
    /\ last' = Call("sphere", <<psd_name, psd_shape, psd_loc, psd_scale>>, pore_seed, kwargs,
                    sphere_result(geometry, psd_name, psd_shape, psd_loc, psd_scale,
                                  pore_seed, kwargs))
    /\ geometry' = geometry

sphere_from_radius(psd_name, psd_shape, psd_loc, psd_scale, pore_seed, kwargs) ==
    /\ last' = Call("sphere_from_radius", <<psd_name, psd_shape, psd_loc, psd_scale>>,
                    pore_seed, kwargs,
                    sphere_from_radius_result(geometry, psd_name, psd_shape, psd_loc,
                                              psd_scale, pore_seed, kwargs))
    /\ geometry' = geometry

voronoi(pore_volume, kwargs) ==
    /\ last' = Call("voronoi", NoPsd, pore_volume, kwargs,
                    voronoi_result(geometry, pore_volume, kwargs))
    /\ geometry' = geometry

(***************************************************************************)
(* Inputs of the calls.                                                    *)
(***************************************************************************)
Shapes == {-1, 1}
Locs == {0, 1}

\* distribution specifications <<name, shape, loc, scale>>: every known
\* family with each shape and loc at scale 2, each known family at the
\* invalid scale 0, and an unknown family
DistSpecs ==
         (KnownNames \X Shapes \X Locs \X {2})
    \cup (KnownNames \X {1} \X {0} \X {0})
    \cup {<<"not_a_real_distribution", 1, 0, 2>>}

\* extra keyword arguments: none, or a pore subset
KwargsChoices == { {}, {[name |-> "pores", val |-> <<1>>]} }

CallSphere(Psds, Kws) ==
    \E psd \in Psds, key \in SeedKeys, kw \in Kws :
        sphere(psd[1], psd[2], psd[3], psd[4], key, kw)

CallSphereFromRadius(Psds, Kws) ==
    \E psd \in Psds, key \in SeedKeys, kw \in Kws :
        sphere_from_radius(psd[1], psd[2], psd[3], psd[4], key, kw)

CallVoronoi(Kws) ==
    \E key \in VolumeKeys, kw \in Kws : voronoi(key, kw)

Next ==
    \/ CallSphere(DistSpecs, KwargsChoices) /\ ref' = ref
    \/ CallSphereFromRadius(DistSpecs, KwargsChoices) /\ ref' = ref
    \/ CallVoronoi(KwargsChoices) /\ ref' = ref

Spec == Init /\ [][Next]_vars

\* the same calls with fewer inputs, and an earlier call remembered in ref
HistSpecs ==
    {<<"genpareto", 1, 0, 2>>, <<"genpareto", -1, 1, 2>>, <<"pareto", 1, 1, 2>>,
     <<"pareto", -1, 0, 2>>, <<"not_a_real_distribution", 1, 0, 2>>}

NextHist ==
    \/ CallSphere(HistSpecs, {{}}) /\ ref' \in {ref, last}
    \/ CallSphereFromRadius(HistSpecs, {{}}) /\ ref' \in {ref, last}
    \/ CallVoronoi({{}}) /\ ref' \in {ref, last}

SpecHist == Init /\ [][NextHist]_vars

(***************************************************************************)
(* Vocabulary of the properties.                                           *)
(***************************************************************************)
Frozen(psd) == prob_fn(psd[1], psd[2], psd[3], psd[4])

\* the distribution specification names a known family with valid parameters
ValidPsd(psd) ==
    HasAttr(psd[1]) /\ argcheck(Frozen(psd)) /\ psd[4] > 0

\* the lower end of the support of the frozen distribution: a * scale + loc
LowerBound(psd) ==
    NumAdd(NumMul(support_a(Frozen(psd)), Frozen(psd).scale), Frozen(psd).loc)

Zero == Int2Num(0)
One == Int2Num(1)
Two == Int2Num(2)

\* q lies in [0, 1)
InUnit(q) == NumLe(Zero, q) /\ NumLt(q, One)

LastQuantile == last.fn \in {"sphere", "sphere_from_radius"}

\* the array the latest call read
LastArray == geometry.props[last.key]

\* C1: whenever sphere returns a result, sphere_from_radius called with the
\* same container and arguments returns an array of the same length whose
\* element i is 2 times element i of sphere's result.
C1_DoubleOfSphere ==
    last.fn = "sphere_from_radius" =>
        LET s == sphere_result(geometry, last.psd[1], last.psd[2], last.psd[3],
                               last.psd[4], last.key, last.kwargs)
        IN  s.ok =>
              /\ last.ok
              /\ Len(last.value) = Len(s.value)
              /\ \A i \in 1..Len(s.value) : last.value[i] = NumMul(Two, s.value[i])

\* a sphere_from_radius call returned two diameters, one finite and non-zero
C1_Witness ==
    /\ last.fn = "sphere_from_radius"
    /\ last.ok
    /\ Len(last.value) = 2
    /\ \E i \in 1..2 : IsFin(last.value[i]) /\ last.value[i].n # 0

\* C3: sphere and sphere_from_radius called with a psd_name the resolver does
\* not know fail (AttributeError, the resolver's lookup failure) and return
\* no array, not even a partial one.
C3_UnknownNameFails ==
    (LastQuantile /\ ~HasAttr(last.psd[1])) =>
        /\ ~last.ok
        /\ last.err = "AttributeError"
        /\ last.value = <<>>

\* sphere_from_radius was called with an unknown name on a container that
\* holds the seed array, with at least one pore
C3_Witness ==
    /\ last.fn = "sphere_from_radius"
    /\ last.psd[1] = "not_a_real_distribution"
    /\ HasKey(geometry, last.key)
    /\ geometry.Np >= 1
    /\ ~last.ok

\* C5: a call to sphere with a valid distribution is all-or-nothing: when
\* every seed lies in [0,1) it returns one diameter per seed, element i
\* computed from seed i and at least the support's lower bound; when any
\* seed lies outside [0,1) it fails and returns no array.
C5_AllOrNothing ==
    (last.fn = "sphere" /\ ValidPsd(last.psd) /\ HasKey(geometry, last.key)) =>
        IF \A i \in 1..Len(LastArray) : InUnit(LastArray[i])
        THEN /\ last.ok
             /\ Len(last.value) = Len(LastArray)
             /\ \A i \in 1..Len(LastArray) :
                   /\ last.value[i] = ppf1(Frozen(last.psd), LastArray[i])
                   /\ NumLe(LowerBound(last.psd), last.value[i])
        ELSE ~last.ok /\ last.value = <<>>

\* the volumes the latest voronoi call selected: one per pore of the container
LastVolumes == Take(geometry.props[last.key], pores(geometry))

\* (pi/6) * dia^3
VolumeOfDiameter(dia) == NumDiv(NumMul(PI, NumPow(dia, 3)), Int2Num(6))

\* C2: voronoi called on a container whose volume array holds a value below 0
\* fails and returns no diameter array.
C2_NegativeVolumeFails ==
    (/\ last.fn = "voronoi"
     /\ HasKey(geometry, last.key)
     /\ \E i \in 1..Len(LastVolumes) : NumLt(LastVolumes[i], Zero))
        => (~last.ok /\ last.value = <<>>)

\* C7: for an array of non-negative volumes voronoi returns for each pore the
\* diameter d with (pi/6) * d^3 equal to the pore's volume; a volume of 0
\* gives 0, and a larger volume never gives a smaller diameter.
C7_EquivalentSphere ==
    (/\ last.fn = "voronoi"
     /\ HasKey(geometry, last.key)
     /\ \A i \in 1..Len(LastVolumes) : NumLe(Zero, LastVolumes[i]))
        => /\ last.ok
           /\ Len(last.value) = Len(LastVolumes)
           /\ \A i \in 1..Len(LastVolumes) :
                 /\ VolumeOfDiameter(last.value[i]) = LastVolumes[i]
                 /\ (LastVolumes[i] = Zero => last.value[i] = Zero)
                 /\ \A j \in 1..Len(LastVolumes) :
                       NumLt(LastVolumes[i], LastVolumes[j])
                           => ~NumLt(last.value[j], last.value[i])

\* voronoi returned the diameters 0 and 2 for the volumes 0 and 4*pi/3
C7_Witness ==
    /\ last.fn = "voronoi"
    /\ last.ok
    /\ geometry.props[last.key] = <<SphereVolume(0), SphereVolume(2)>>
    /\ last.value = <<Zero, Two>>

\* the pore subset a caller names in the keyword arguments, all pores if none
NamedPores(kwargs) ==
    IF \E kw \in kwargs : kw.name = "pores"
    THEN (CHOOSE kw \in kwargs : kw.name = "pores").val
    ELSE pores(geometry)

C4_ContainerUnchanged == [][geometry' = geometry]_vars

\* a sphere call returned diameters for a container that holds two arrays
C4_Witness ==
    /\ last.fn = "sphere"
    /\ last.ok
    /\ geometry.Np >= 1
    /\ Cardinality(DOMAIN geometry.props) = 2

\* a quantile call that returned, with a valid distribution specification
QuantileCall(c) ==
    c.fn \in {"sphere", "sphere_from_radius"} /\ c.ok /\ ValidPsd(c.psd)

\* the seed array a call read
ArrayOf(c) == geometry.props[c.key]

\* pore i of call a has a smaller seed than pore j of call b
SeedBelow(a, i, b, j) ==
    /\ InUnit(ArrayOf(a)[i])
    /\ InUnit(ArrayOf(b)[j])
    /\ NumLt(ArrayOf(a)[i], ArrayOf(b)[j])

\* C6: for a fixed valid distribution specification sphere is non-decreasing
\* in the seed, over the seeds in [0,1): for two pores of the same call, or
\* of two calls with the same specification, a smaller seed never gives a
\* larger diameter; the same holds of sphere_from_radius.
C6_Monotone ==
    QuantileCall(last) =>
        /\ \A i, j \in 1..Len(last.value) :
              SeedBelow(last, i, last, j) => NumLe(last.value[i], last.value[j])
        /\ (QuantileCall(ref) /\ ref.fn = last.fn /\ ref.psd = last.psd) =>
              \A i \in 1..Len(ref.value), j \in 1..Len(last.value) :
                  /\ SeedBelow(ref, i, last, j) => NumLe(ref.value[i], last.value[j])
                  /\ SeedBelow(last, j, ref, i) => NumLe(last.value[j], ref.value[i])

\* two sphere calls with the same specification read different arrays, and a
\* pore of the earlier one has a smaller seed and a smaller diameter than a
\* pore of the later one
C6_Witness ==
    /\ QuantileCall(ref)
    /\ QuantileCall(last)
    /\ ref.fn = "sphere"
    /\ last.fn = "sphere"
    /\ ref.psd = last.psd
    /\ ref.key # last.key
    /\ \E i \in 1..Len(ref.value), j \in 1..Len(last.value) :
          SeedBelow(ref, i, last, j) /\ NumLt(ref.value[i], last.value[j])

SameInputs(a, b) ==
    a.fn = b.fn /\ a.psd = b.psd /\ a.key = b.key /\ a.kwargs = b.kwargs

AllKeys == SeedKeys \cup VolumeKeys

\* the containers with g's pores that hold g's array under key and, under
\* any of the other keys, any array over RankVals
Variants(g, key) ==
    {Container(g.Np, [k \in {key} \cup present |->
                         IF k = key THEN g.props[key] ELSE f[k]])
        : present \in SUBSET (AllKeys \ {key}),
          f \in [AllKeys \ {key} -> Arrays(RankVals, g.Np)]}

Outcome(res) == <<res.ok, res.err, res.value>>

\* C10: the outcome of sphere and of sphere_from_radius depends only on the
\* array under the key given as pore_seed and on the distribution
\* parameters, and that of voronoi only on the array under pore_volume and
\* the container's pores: containers that agree on that array give the same
\* outcome whatever their other keys hold, and extra keyword arguments have
\* no effect.
C10_OnlyTheNamedArray ==
    (last.fn # "none" /\ HasKey(geometry, last.key)) =>
        \A g2 \in Variants(geometry, last.key), kw \in KwargsChoices :
            Outcome(last) =
                Outcome(IF last.fn = "sphere"
                        THEN sphere_result(g2, last.psd[1], last.psd[2], last.psd[3],
                                           last.psd[4], last.key, kw)
                        ELSE IF last.fn = "sphere_from_radius"
                        THEN sphere_from_radius_result(g2, last.psd[1], last.psd[2],
                                                       last.psd[3], last.psd[4],
                                                       last.key, kw)
                        ELSE voronoi_result(g2, last.key, kw))

\* sphere read pore.rank, given extra keyword arguments, on a container whose
\* pore.seed array differs
C10_Witness ==
    /\ last.fn = "sphere"
    /\ last.ok
    /\ last.key = "pore.rank"
    /\ last.kwargs # {}
    /\ HasKey(geometry, "pore.seed")
    /\ geometry.props["pore.seed"] # geometry.props["pore.rank"]

====
